---- MODULE Spec2Model ----
(***************************************************************************)
(* Model of scripts/pipeline_movie.py (amnona/dogmic): the bark detector   *)
(* (get_sample_time, test_peaks, calculate_barks) and the file pipeline    *)
(* (find_new_files, pipeline).                                             *)
(*                                                                         *)
(* Three specifications share the module:                                  *)
(*   SpecTime   one call of get_sample_time on a bounded set of inputs     *)
(*   SpecBarks  one call of calculate_barks on a bounded set of waveforms  *)
(*   SpecPipe   repeated pipeline runs over one directory                  *)
(* Each specification moves its own variables and leaves the others alone. *)
(***************************************************************************)
EXTENDS Integers, Sequences, FiniteSets, TLC

VARIABLES
    \* ---- SpecTime: one call of get_sample_time
    ts_filename,        \* argument filename (sequence of characters)
    ts_sample_pos,      \* argument sample_pos
    ts_sr,              \* argument sr
    ts_type,            \* argument type
    ts_done,            \* the call has returned or raised
    ts_result,          \* what the call produced
    \* ---- SpecBarks: one call of calculate_barks
    y,                  \* the loaded waveform, amplitudes in tenths
    bark_like,          \* per position: bark_amp > 0.5 for the window around it
    sr,                 \* sample rate returned by librosa.load
    bark_max_interval,  \* argument, in quarters of a second
    pc,                 \* position inside calculate_barks
    cand,               \* np.where(y > bark_threshold)[0]
    ci,                 \* position of the for loop of test_peaks in cand
    last_peak,          \* test_peaks local
    num_tested,         \* test_peaks local
    verified_peak_pos,  \* test_peaks local
    verified_peaks,     \* test_peaks local: the accepted windows
    not_barks,          \* test_peaks local: the rejected windows
    peak_pos,           \* calculate_barks local after test_peaks returned
    peak_index,         \* calculate_barks local
    barks,              \* the rows of the returned DataFrame
    \* ---- SpecPipe: pipeline runs over one directory
    fsize,              \* per video file: "absent", "empty" or "full"
    md5_marker,         \* the video files whose .md5 file exists
    mp3_files,          \* the video files whose .mp3 file exists
    log_exists,         \* barks_log.tsv exists
    bark_log,           \* the lines of barks_log.tsv
    run_pc,             \* position inside pipeline
    new_files,          \* pipeline local: what find_new_files returned
    fi,                 \* position of the for loop of pipeline in new_files
    mail_lines,         \* pipeline local
    emails,             \* number of mails handed to send_email
    runs,               \* number of pipeline runs started
    selected,           \* per file: number of runs whose find_new_files returned it
    started,            \* per file: number of loop iterations begun for it
    appended            \* per file: number of times its rows were written

tsVars == <<ts_filename, ts_sample_pos, ts_sr, ts_type, ts_done, ts_result>>
bkVars == <<y, bark_like, sr, bark_max_interval, pc, cand, ci, last_peak,
            num_tested, verified_peak_pos, verified_peaks, not_barks,
            peak_pos, peak_index, barks>>
ppVars == <<fsize, md5_marker, mp3_files, log_exists, bark_log, run_pc,
            new_files, fi, mail_lines, emails, runs, selected, started,
            appended>>
vars == <<tsVars, bkVars, ppVars>>

(***************************************************************************)
(* Calendar arithmetic of datetime.datetime, on (ordinal day, second of    *)
(* day) pairs so that no intermediate value leaves 32 bits.                *)
(***************************************************************************)
SecondsPerDay == 86400

SecondsPerHour == 3600

is_leap(year) ==
    year % 4 = 0 /\ (year % 100 # 0 \/ year % 400 = 0)

DAYS_IN_MONTH == <<31, 28, 31, 30, 31, 30, 31, 31, 30, 31, 30, 31>>

days_in_month(year, month) ==
    IF month = 2 /\ is_leap(year) THEN 29 ELSE DAYS_IN_MONTH[month]

RECURSIVE DAYS_BEFORE_MONTH(_)
DAYS_BEFORE_MONTH(month) ==
    IF month = 1 THEN 0
    ELSE DAYS_BEFORE_MONTH(month - 1) + DAYS_IN_MONTH[month - 1]

days_before_year(year) ==
    LET py == year - 1
    IN  py * 365 + (py \div 4) - (py \div 100) + (py \div 400)

days_before_month(year, month) ==
    DAYS_BEFORE_MONTH(month) + (IF month > 2 /\ is_leap(year) THEN 1 ELSE 0)

ymd2ord(year, month, day) ==
    days_before_year(year) + days_before_month(year, month) + day

ord2ymd(ord) ==
    LET n0   == ord - 1
        n400 == n0 \div 146097
        r400 == n0 % 146097
        n100 == r400 \div 36524
        r100 == r400 % 36524
        n4   == r100 \div 1461
        r4   == r100 % 1461
        n1   == r4 \div 365
        n    == r4 % 365
        year == n400 * 400 + 1 + n100 * 100 + n4 * 4 + n1
    IN  IF n1 = 4 \/ n100 = 4
        THEN [year |-> year - 1, month |-> 12, day |-> 31]
        ELSE LET leapyear == n1 = 3 /\ (n4 # 24 \/ n100 = 3)
                 leap(m)  == IF m > 2 /\ leapyear THEN 1 ELSE 0
                 m0       == (n + 50) \div 32
                 p0       == DAYS_BEFORE_MONTH(m0) + leap(m0)
                 month    == IF p0 > n THEN m0 - 1 ELSE m0
                 prec     == IF p0 > n
                             THEN p0 - (DAYS_IN_MONTH[m0 - 1]
                                        + (IF m0 - 1 = 2 /\ leapyear THEN 1 ELSE 0))
                             ELSE p0
             IN  [year |-> year, month |-> month, day |-> n - prec + 1]

\* the datetime of a date, a second of the day and a microsecond
combine(date, rest, microsecond) ==
    [year |-> date.year, month |-> date.month, day |-> date.day,
     hour |-> rest \div SecondsPerHour,
     minute |-> (rest % SecondsPerHour) \div 60,
     second |-> rest % 60,
     microsecond |-> microsecond]

\* the second of the day of a datetime
second_of_day(dt) == dt.hour * SecondsPerHour + dt.minute * 60 + dt.second

\* the datetime total seconds after the midnight that begins day ord
normalize(ord, total, microsecond) ==
    combine(ord2ymd(ord + (total \div SecondsPerDay)), total % SecondsPerDay,
            microsecond)

\* datetime + timedelta(seconds = secs), secs of either sign
AddSeconds(dt, secs) ==
    normalize(ymd2ord(dt.year, dt.month, dt.day), second_of_day(dt) + secs,
              dt.microsecond)

(***************************************************************************)
(* Strings are sequences of one-character strings.                         *)
(***************************************************************************)
Digits == <<"0", "1", "2", "3", "4", "5", "6", "7", "8", "9">>

IsDigit(c) == \E i \in 1..Len(Digits) : Digits[i] = c

DigitVal(c) == (CHOOSE i \in 1..Len(Digits) : Digits[i] = c) - 1

\* the last index of character c in s, 0 when s has none
RECURSIVE rfind(_, _, _)
rfind(s, c, i) ==
    IF i = 0 THEN 0
    ELSE IF s[i] = c THEN i
    ELSE rfind(s, c, i - 1)

\* os.path.basename(filename)
basename(filename) ==
    SubSeq(filename, rfind(filename, "/", Len(filename)) + 1, Len(filename))

\* '.'.join(name.split('.')[:-1]): the name up to its last dot, '' without a dot
stem(name) ==
    LET dot == rfind(name, ".", Len(name))
    IN  IF dot = 0 THEN << >> ELSE SubSeq(name, 1, dot - 1)

\* the number written by the w characters of s from p on, -1 unless all are digits
RECURSIVE DigitsValue(_, _, _)
DigitsValue(s, p, w) ==
    IF w = 0 THEN 0
    ELSE IF p + w - 1 > Len(s) THEN -1
    ELSE IF ~IsDigit(s[p + w - 1]) THEN -1
    ELSE LET r == DigitsValue(s, p, w - 1)
         IN  IF r < 0 THEN -1 ELSE 10 * r + DigitVal(s[p + w - 1])

RECURSIVE Pow10(_)
Pow10(n) == IF n = 0 THEN 1 ELSE 10 * Pow10(n - 1)

(***************************************************************************)
(* datetime.datetime.strptime.  A format is a sequence of tokens, either a *)
(* directive ("%Y") or a literal character.  Each directive is the regular *)
(* expression of _strptime.TimeRE: an ordered list of alternatives, each a *)
(* width and a range of values (sp: the alternative " [1-9]" of %d).  The  *)
(* match backtracks through the alternatives in order, as re.match does,   *)
(* takes the first match of the whole format, and fails when characters    *)
(* are left unconverted.                                                   *)
(***************************************************************************)
FmtDogmic == <<"%Y", "%m", "%d", "%H", "%M", "%S">>

FmtCamera == <<"1", "_", "%Y", "-", "%m", "-", "%d", "_",
               "%H", "-", "%M", "-", "%S", "_", "%f">>

Directives == {"%Y", "%m", "%d", "%H", "%M", "%S", "%f"}

Alt(w, lo, hi, sp) == [w |-> w, lo |-> lo, hi |-> hi, sp |-> sp]

Alternatives(tok) ==
    CASE tok = "%Y" -> << Alt(4, 0, 9999, FALSE) >>
      [] tok = "%m" -> << Alt(2, 1, 12, FALSE), Alt(1, 1, 9, FALSE) >>
      [] tok = "%d" -> << Alt(2, 1, 31, FALSE), Alt(1, 1, 9, FALSE),
                          Alt(2, 1, 9, TRUE) >>
      [] tok = "%H" -> << Alt(2, 0, 23, FALSE), Alt(1, 0, 9, FALSE) >>
      [] tok = "%M" -> << Alt(2, 0, 59, FALSE), Alt(1, 0, 9, FALSE) >>
      [] tok = "%S" -> << Alt(2, 0, 61, FALSE), Alt(1, 0, 9, FALSE) >>
      [] tok = "%f" -> << Alt(6, 0, 999999, FALSE), Alt(5, 0, 99999, FALSE),
                          Alt(4, 0, 9999, FALSE), Alt(3, 0, 999, FALSE),
                          Alt(2, 0, 99, FALSE), Alt(1, 0, 9, FALSE) >>

\* the value alternative a reads at p, -1 when it does not match there
AltValue(s, p, a) ==
    IF a.sp
    THEN IF p + 1 <= Len(s) /\ s[p] = " " THEN
            LET v == DigitsValue(s, p + 1, 1)
            IN  IF v >= a.lo /\ v <= a.hi THEN v ELSE -1
         ELSE -1
    ELSE LET v == DigitsValue(s, p, a.w)
         IN  IF v >= a.lo /\ v <= a.hi THEN v ELSE -1

NoMatch == [ok |-> FALSE, end |-> 0, vals |-> << >>]

\* vals collects <<directive, value, width>> in format order
RECURSIVE re_match(_, _, _, _, _)
RECURSIVE re_alternatives(_, _, _, _, _, _)
re_match(fmt, i, s, p, vals) ==
    IF i > Len(fmt) THEN [ok |-> TRUE, end |-> p - 1, vals |-> vals]
    ELSE IF fmt[i] \in Directives THEN re_alternatives(fmt, i, s, p, vals, 1)
    ELSE IF p <= Len(s) /\ s[p] = fmt[i] THEN re_match(fmt, i + 1, s, p + 1, vals)
    ELSE NoMatch

re_alternatives(fmt, i, s, p, vals, k) ==
    LET alts == Alternatives(fmt[i])
    IN  IF k > Len(alts) THEN NoMatch
        ELSE LET v == AltValue(s, p, alts[k])
             IN  IF v < 0 THEN re_alternatives(fmt, i, s, p, vals, k + 1)
                 ELSE LET m == re_match(fmt, i + 1, s, p + alts[k].w,
                                        Append(vals, <<fmt[i], v, alts[k].w>>))
                      IN  IF m.ok THEN m
                          ELSE re_alternatives(fmt, i, s, p, vals, k + 1)

\* the value found for directive tok, dflt when the format has no such directive
Found(vals, tok, dflt) ==
    IF \E j \in 1..Len(vals) : vals[j][1] = tok
    THEN vals[CHOOSE j \in 1..Len(vals) : vals[j][1] = tok][2]
    ELSE dflt

\* %f is padded with zeros on the right to six digits
Fraction(vals) ==
    IF \E j \in 1..Len(vals) : vals[j][1] = "%f"
    THEN LET e == vals[CHOOSE j \in 1..Len(vals) : vals[j][1] = "%f"]
         IN  e[2] * Pow10(6 - e[3])
    ELSE 0

NoTime == [year |-> 0, month |-> 0, day |-> 0, hour |-> 0, minute |-> 0,
           second |-> 0, microsecond |-> 0]

Raised(what) == [raised |-> what, value |-> NoTime]

Returned(dt) == [raised |-> "", value |-> dt]

\* datetime(year, month, day, hour, minute, second, microsecond)
make_datetime(year, month, day, hour, minute, second, microsecond) ==
    IF year < 1 \/ day > days_in_month(year, month) \/ second > 59
    THEN Raised("ValueError")
    ELSE Returned([year |-> year, month |-> month, day |-> day,
                   hour |-> hour, minute |-> minute, second |-> second,
                   microsecond |-> microsecond])

\* what strptime makes of the match m of a string of n characters
converted(m, n) ==
    IF ~m.ok \/ m.end # n THEN Raised("ValueError")
    ELSE make_datetime(Found(m.vals, "%Y", 1900), Found(m.vals, "%m", 1),
                       Found(m.vals, "%d", 1), Found(m.vals, "%H", 0),
                       Found(m.vals, "%M", 0), Found(m.vals, "%S", 0),
                       Fraction(m.vals))

strptime(s, fmt) == converted(re_match(fmt, 1, s, 1, << >>), Len(s))

(***************************************************************************)
(* get_sample_time(filename, sample_pos, sr, type)                         *)
(***************************************************************************)
\* lines 24-29: the start time read from the stem under the convention type
\* (any other type leaves start_time a str, and line 32 raises TypeError)
parse_start(start_time, type) ==
    CASE type = "dogmic" -> strptime(start_time, FmtDogmic)
      [] type = "camera" -> strptime(start_time, FmtCamera)
      [] OTHER -> Raised("TypeError")

\* lines 30-33: start_time - offset + timedelta(seconds=int(interval_secs))
shifted(parsed, offset, interval_secs) ==
    IF parsed.raised # "" THEN parsed
    ELSE Returned(AddSeconds(AddSeconds(parsed.value, 0 - offset),
                             interval_secs))

get_sample_time_no_offset(filename, sample_pos, rate, type) ==
    shifted(parse_start(stem(basename(filename)), type), 0, sample_pos \div rate)

get_sample_time(filename, sample_pos, rate, type) ==
    shifted(parse_start(stem(basename(filename)), type),
            IF type = "camera" THEN SecondsPerHour ELSE 0,
            sample_pos \div rate)

(***************************************************************************)
(* SpecTime: get_sample_time is called once on inputs drawn from the sets  *)
(* below.                                                                  *)
(***************************************************************************)
\* a dogmic recording: the stem is YYYYMMDDHHMMSS
FileDogmic ==
    <<"2", "0", "2", "4", "0", "1", "1", "5", "0", "8", "3", "0", "0", "0",
      ".", "w", "a", "v">>

\* a dogmic recording half an hour after midnight, in a directory
FileDogmicNight ==
    <<"/", "d", "a", "t", "a", "/", "2", "0", "2", "4", "0", "3", "0", "1",
      "0", "0", "3", "0", "0", "0", ".", "m", "p", "3">>

\* a dogmic recording one second before the new year
FileDogmicEve ==
    <<"2", "0", "2", "3", "1", "2", "3", "1", "2", "3", "5", "9", "5", "9",
      ".", "w", "a", "v">>

\* a camera recording: the stem is 1_YYYY-MM-DD_HH-MM-SS_XXXX
FileCamera ==
    <<"1", "_", "2", "0", "2", "4", "-", "0", "1", "-", "1", "5", "_", "0",
      "8", "-", "3", "0", "-", "0", "0", "_", "1", "2", "3", "4", ".", "m",
      "k", "v">>

\* a camera recording half an hour after midnight on 1 March of a leap year
FileCameraNight ==
    <<"/", "d", "a", "t", "a", "/", "1", "_", "2", "0", "2", "4", "-", "0",
      "3", "-", "0", "1", "_", "0", "0", "-", "3", "0", "-", "0", "0", "_",
      "0", "0", "0", "0", "0", "0", ".", "m", "p", "3">>

\* a camera recording one second before the new year
FileCameraEve ==
    <<"1", "_", "2", "0", "2", "3", "-", "1", "2", "-", "3", "1", "_", "2",
      "3", "-", "5", "9", "-", "5", "9", "_", "5", ".", "m", "p", "3">>

\* thirteen digits: the seconds are read from one digit
FileShort ==
    <<"2", "0", "2", "4", "0", "1", "1", "5", "0", "8", "3", "0", "0", ".",
      "w", "a", "v">>

\* 30 February
FileNoDate ==
    <<"2", "0", "2", "3", "0", "2", "3", "0", "1", "2", "0", "0", "0", "0",
      ".", "w", "a", "v">>

\* no extension: the stem is empty
FileNoExt ==
    <<"2", "0", "2", "4", "0", "1", "1", "5", "0", "8", "3", "0", "0", "0">>

\* no timestamp at all
FileOther ==
    <<"b", "a", "r", "k", "s", ".", "v", "2", ".", "w", "a", "v">>

NumericFiles == {FileDogmic, FileDogmicNight, FileDogmicEve}

CameraFiles == {FileCamera, FileCameraNight, FileCameraEve}

TimeFiles == NumericFiles \cup CameraFiles
             \cup {FileShort, FileNoDate, FileNoExt, FileOther}

TimeTypes == {"dogmic", "camera", "usb"}

TimeRates == {8, 16000}

\* sample positions: the start, the last sample of the first second, whole
\* seconds, a whole hour and a whole day at 8 samples a second
TimePositions == {0, 7, 8, 15999, 16000, 28800, 691200}

\* the state of the variables of the other specifications while one runs
BarksIdle ==
    /\ y = << >> /\ bark_like = << >> /\ sr = 0 /\ bark_max_interval = 0
    /\ pc = "idle" /\ cand = << >> /\ ci = 0 /\ last_peak = 0
    /\ num_tested = 0 /\ verified_peak_pos = << >> /\ verified_peaks = << >>
    /\ not_barks = << >> /\ peak_pos = << >> /\ peak_index = 0
    /\ barks = << >>

PipeIdle ==
    /\ fsize = << >> /\ md5_marker = {} /\ mp3_files = {}
    /\ log_exists = FALSE /\ bark_log = << >> /\ run_pc = "off"
    /\ new_files = << >> /\ fi = 0 /\ mail_lines = << >> /\ emails = 0
    /\ runs = 0 /\ selected = << >> /\ started = << >> /\ appended = << >>

TimeIdle ==
    /\ ts_filename = << >> /\ ts_sample_pos = 0 /\ ts_sr = 0
    /\ ts_type = "" /\ ts_done = FALSE /\ ts_result = Raised("")

InitTime ==
    /\ ts_filename \in TimeFiles
    /\ ts_sample_pos \in TimePositions
    /\ ts_sr \in TimeRates
    /\ ts_type \in TimeTypes
    /\ ts_done = FALSE
    /\ ts_result = Raised("")
    /\ BarksIdle
    /\ PipeIdle

GetSampleTime ==
    /\ ~ts_done
    /\ ts_done' = TRUE
    /\ ts_result' = get_sample_time(ts_filename, ts_sample_pos, ts_sr, ts_type)
    /\ UNCHANGED <<ts_filename, ts_sample_pos, ts_sr, ts_type, bkVars, ppVars>>

NextTime == GetSampleTime

SpecTime == InitTime /\ [][NextTime]_vars

(***************************************************************************)
(* SpecBarks: calculate_barks(filename, bark_threshold, bark_max_interval,  *)
(* type) on one waveform, with test_peaks inlined as its loop.             *)
(*                                                                         *)
(* Amplitudes are tenths, durations are quarters of a second (0.25 s, the  *)
(* default window_duration, is one quarter).  sr * window_duration need   *)
(* not be a whole number of samples (librosa.load gives 22050, a window of *)
(* 5512.5 samples; here the rate 6 gives 1.5), so comparisons with it are  *)
(* made in quarters of a sample and int() is taken where the code takes    *)
(* it.  The rates are even and the intervals whole halves of a second, so  *)
(* that bark_max_interval * sr, which the code adds to a position without  *)
(* rounding, is a whole number of samples.                                 *)
(***************************************************************************)
\* number of samples of the waveform
MaxLen == 7

\* bark_threshold = 0.3, in tenths
BarkThreshold == 3

\* window_duration = 0.25, in quarters of a second
WindowQuarters == 1

QuartersPerSecond == 4

\* the amplitudes a sample takes: at the threshold, and above it
Amplitudes == {3, 5}

SampleRates == {4, 6, 8}

\* bark_max_interval: 0 s, 0.5 s and the 10 s of pipeline, in quarters
BarkMaxIntervals == {0, 2, 40}

\* the recording calculate_barks is given, and its naming convention
BarkFile == FileCameraEve

BarkType == "camera"

Positions == 0..(MaxLen - 1)

Max(a, b) == IF a >= b THEN a ELSE b

Min(a, b) == IF a <= b THEN a ELSE b

\* sr * window_duration, in quarters of a sample
WindowQuarterSamples(rate) == rate * WindowQuarters

\* int(x) of the number x of q quarter samples: rounded towards zero
int(q) ==
    IF q >= 0 THEN q \div QuartersPerSecond
    ELSE 0 - ((0 - q) \div QuartersPerSecond)

\* bark_max_interval * sr, a whole number for the rates and intervals above
IntervalSamples(bmi, rate) == (bmi * rate) \div QuartersPerSecond

\* np.where(y > bark_threshold)[0]: the positions above the threshold, ascending
RECURSIVE where_above(_, _, _)
where_above(wave, threshold, p) ==
    IF p >= MaxLen THEN << >>
    ELSE IF wave[p] > threshold THEN <<p>> \o where_above(wave, threshold, p + 1)
    ELSE where_above(wave, threshold, p + 1)

\* the most recent candidate that passed validation, 0 before the first
LastAccepted ==
    IF verified_peak_pos = << >> THEN 0
    ELSE verified_peak_pos[Len(verified_peak_pos)]

debounced_no_window(cpeak, last, rate) == cpeak < last

debounced_unless_first(cpeak, last, rate) ==
    /\ last > 0
    /\ cpeak * QuartersPerSecond
          < last * QuartersPerSecond + WindowQuarterSamples(rate)

debounced_last_accepted(cpeak, last, rate) ==
    cpeak * QuartersPerSecond
        < LastAccepted * QuartersPerSecond + WindowQuarterSamples(rate)

\* cpeak < last_peak + sr * window_duration
debounced(cpeak, last, rate) ==
    cpeak * QuartersPerSecond
        < last * QuartersPerSecond + WindowQuarterSamples(rate)

\* y_cut = y[start_sample:end_sample], kept as its two bounds
y_cut(cpeak, rate) ==
    [start_sample |->
         Max(0, int(cpeak * QuartersPerSecond - WindowQuarterSamples(rate))),
     end_sample   |->
         Min(MaxLen, int(cpeak * QuartersPerSecond + WindowQuarterSamples(rate)))]

RECURSIVE next_peak_index_chained(_, _, _, _, _)
next_peak_index_chained(pp, index, next, bmi, rate) ==
    IF next < Len(pp)
       /\ (pp[next + 1] - pp[next]) * QuartersPerSecond < bmi * rate
    THEN next_peak_index_chained(pp, index, next + 1, bmi, rate)
    ELSE next

RECURSIVE next_peak_index_no_sr(_, _, _, _, _)
next_peak_index_no_sr(pp, index, next, bmi, rate) ==
    IF next < Len(pp)
       /\ (pp[next + 1] - pp[index + 1]) * QuartersPerSecond < bmi
    THEN next_peak_index_no_sr(pp, index, next + 1, bmi, rate)
    ELSE next

\* the inner while loop: next_peak_index advances while the peak it names lies
\* less than bark_max_interval * sr after peak_pos[peak_index] (indices from 0)
RECURSIVE next_peak_index(_, _, _, _, _)
next_peak_index(pp, index, next, bmi, rate) ==
    IF next < Len(pp)
       /\ (pp[next + 1] - pp[index + 1]) * QuartersPerSecond < bmi * rate
    THEN next_peak_index(pp, index, next + 1, bmi, rate)
    ELSE next

\* end_time - start_time, in seconds
duration(start_time, end_time) ==
    (ymd2ord(end_time.year, end_time.month, end_time.day)
     - ymd2ord(start_time.year, start_time.month, start_time.day)) * SecondsPerDay
    + (end_time.hour - start_time.hour) * SecondsPerHour
    + (end_time.minute - start_time.minute) * 60
    + (end_time.second - start_time.second)

make_row(start_sample, end_sample, start_time_event, end_time_event, count) ==
    [start_samples |-> start_sample,
     end_samples   |-> end_sample,
     start_time    |-> start_time_event,
     end_time      |-> end_time_event,
     duration      |-> duration(start_time_event, end_time_event),
     num_barks     |-> count,
     date          |-> [year  |-> start_time_event.year,
                        month |-> start_time_event.month,
                        day   |-> start_time_event.day]]

\* lines 130-144
row(start_sample, end_sample, count, rate) ==
    make_row(start_sample, end_sample,
             get_sample_time(BarkFile, start_sample, rate, BarkType).value,
             get_sample_time(BarkFile, end_sample, rate, BarkType).value,
             count)

new_row_clipped(pp, index, next, bmi, rate) ==
    row(pp[index + 1], Min(MaxLen, pp[next] + IntervalSamples(bmi, rate)),
        next - index, rate)

new_row_count_gaps(pp, index, next, bmi, rate) ==
    row(pp[index + 1], pp[next] + IntervalSamples(bmi, rate),
        next - index - 1, rate)

\* the row of the event made of peak_pos[peak_index .. next_peak_index - 1]
new_row(pp, index, next, bmi, rate) ==
    row(pp[index + 1], pp[next] + IntervalSamples(bmi, rate),
        next - index, rate)

InitBarks ==
    /\ y \in [Positions -> Amplitudes]
    /\ bark_like \in [Positions -> BOOLEAN]
    /\ \A p \in Positions : bark_like[p] => y[p] > BarkThreshold
    /\ sr \in SampleRates
    /\ bark_max_interval \in BarkMaxIntervals
    /\ pc = "load"
    /\ cand = << >> /\ ci = 0 /\ last_peak = 0 /\ num_tested = 0
    /\ verified_peak_pos = << >> /\ verified_peaks = << >>
    /\ not_barks = << >> /\ peak_pos = << >> /\ peak_index = 0
    /\ barks = << >>
    /\ TimeIdle
    /\ PipeIdle

\* lines 103-113: the waveform is loaded, thresholded, and test_peaks entered
\* (the start time of line 108 is only logged; BarkFile parses under BarkType)
LoadAndThreshold ==
    /\ pc = "load"
    /\ cand' = where_above(y, BarkThreshold, 0)
    /\ ci' = 0
    /\ last_peak' = 0
    /\ num_tested' = 0
    /\ verified_peak_pos' = << >>
    /\ verified_peaks' = << >>
    /\ not_barks' = << >>
    /\ pc' = "test"
    /\ UNCHANGED <<y, bark_like, sr, bark_max_interval, peak_pos, peak_index,
                   barks, tsVars, ppVars>>

\* lines 68-70: the candidate is too close to last_peak and is passed over
TestPeaksSkip ==
    /\ pc = "test"
    /\ ci < Len(cand)
    /\ debounced(cand[ci + 1], last_peak, sr)
    /\ ci' = ci + 1
    /\ UNCHANGED <<y, bark_like, sr, bark_max_interval, pc, cand, last_peak,
                   num_tested, verified_peak_pos, verified_peaks, not_barks,
                   peak_pos, peak_index, barks, tsVars, ppVars>>

\* lines 71-94: the candidate is tested and bark_amp > 0.5
TestPeaksAccept ==
    /\ pc = "test"
    /\ ci < Len(cand)
    /\ ~debounced(cand[ci + 1], last_peak, sr)
    /\ bark_like[cand[ci + 1]]
    /\ ci' = ci + 1
    /\ last_peak' = cand[ci + 1]
    /\ num_tested' = num_tested + 1
    /\ verified_peaks' = Append(verified_peaks, y_cut(cand[ci + 1], sr))
    /\ verified_peak_pos' = Append(verified_peak_pos, cand[ci + 1])
    /\ UNCHANGED <<y, bark_like, sr, bark_max_interval, pc, cand, not_barks,
                   peak_pos, peak_index, barks, tsVars, ppVars>>

\* lines 71-96: the candidate is tested and bark_amp <= 0.5
TestPeaksReject ==
    /\ pc = "test"
    /\ ci < Len(cand)
    /\ ~debounced(cand[ci + 1], last_peak, sr)
    /\ ~bark_like[cand[ci + 1]]
    /\ ci' = ci + 1
    /\ last_peak' = cand[ci + 1]
    /\ num_tested' = num_tested + 1
    /\ not_barks' = Append(not_barks, y_cut(cand[ci + 1], sr))
    /\ UNCHANGED <<y, bark_like, sr, bark_max_interval, pc, cand,
                   verified_peak_pos, verified_peaks, peak_pos, peak_index,
                   barks, tsVars, ppVars>>

\* lines 98, 113-116: test_peaks returns nothing, "No barks detected."
NoBarks ==
    /\ pc = "test"
    /\ ci = Len(cand)
    /\ verified_peak_pos = << >>
    /\ peak_pos' = verified_peak_pos
    /\ pc' = "done"
    /\ UNCHANGED <<y, bark_like, sr, bark_max_interval, cand, ci, last_peak,
                   num_tested, verified_peak_pos, verified_peaks, not_barks,
                   peak_index, barks, tsVars, ppVars>>

\* lines 98, 113-118: test_peaks returns peaks and the merge loop is entered
StartMerge ==
    /\ pc = "test"
    /\ ci = Len(cand)
    /\ verified_peak_pos # << >>
    /\ peak_pos' = verified_peak_pos
    /\ peak_index' = 0
    /\ pc' = "merge"
    /\ UNCHANGED <<y, bark_like, sr, bark_max_interval, cand, ci, last_peak,
                   num_tested, verified_peak_pos, verified_peaks, not_barks,
                   barks, tsVars, ppVars>>

\* lines 119-149: one pass of the outer while loop appends one event
MergeEvent ==
    /\ pc = "merge"
    /\ LET next == next_peak_index(peak_pos, peak_index, peak_index + 1,
                                   bark_max_interval, sr)
       IN  /\ barks' = Append(barks, new_row(peak_pos, peak_index, next,
                                             bark_max_interval, sr))
           /\ peak_index' = next
           /\ pc' = IF next >= Len(peak_pos) THEN "done" ELSE "merge"
    /\ UNCHANGED <<y, bark_like, sr, bark_max_interval, cand, ci, last_peak,
                   num_tested, verified_peak_pos, verified_peaks, not_barks,
                   peak_pos, tsVars, ppVars>>

NextBarks ==
    \/ LoadAndThreshold
    \/ TestPeaksSkip
    \/ TestPeaksAccept
    \/ TestPeaksReject
    \/ NoBarks
    \/ StartMerge
    \/ MergeEvent

SpecBarks == InitBarks /\ [][NextBarks]_vars

(***************************************************************************)
(* Properties of calculate_barks and test_peaks, checked under SpecBarks.  *)
(***************************************************************************)
\* the number of peaks counted by the first k events
RECURSIVE SumBarks(_)
SumBarks(k) == IF k = 0 THEN 0 ELSE SumBarks(k - 1) + barks[k].num_barks

\* the first and the last peak of event k, as the accepted positions it was
\* built from: the run that starts where the runs of the earlier events end
FirstPeak(k) == peak_pos[SumBarks(k - 1) + 1]

LastPeak(k) == peak_pos[SumBarks(k)]

Events == 1..Len(barks)

AdjacentEvents == 1..(Len(barks) - 1)

\* C1: the events are, in output order, consecutive contiguous runs of the
\* accepted positions returned by test_peaks that cover them exactly once: each
\* event starts at the first position of its run, the runs follow one another
\* without a gap, the peaks of an event all precede those of the next, the
\* start_samples strictly increase, and when calculate_barks is done the
\* num_barks add up to the number of accepted positions.
C1_RunsCoverAccepted ==
    /\ pc \in {"merge", "done"} => peak_pos = verified_peak_pos
    /\ SumBarks(Len(barks)) = peak_index
    /\ SumBarks(Len(barks)) <= Len(peak_pos)
    /\ \A k \in Events : barks[k].start_samples = FirstPeak(k)
    /\ \A k \in AdjacentEvents :
          /\ LastPeak(k) < FirstPeak(k + 1)
          /\ barks[k].start_samples < barks[k + 1].start_samples
    /\ pc = "done" => SumBarks(Len(barks)) = Len(verified_peak_pos)

\* C1 witness: a finished run with several events, one of them of several peaks
C1_Witness ==
    /\ pc = "done"
    /\ Len(barks) >= 2
    /\ \E k \in Events : barks[k].num_barks >= 2

\* C2: any two distinct accepted positions are at least sr * window_duration
\* samples apart.
C2_Debounce ==
    \A i \in 1..Len(verified_peak_pos) : \A j \in 1..Len(verified_peak_pos) :
        i < j =>
            (verified_peak_pos[j] - verified_peak_pos[i]) * QuartersPerSecond
                >= sr * WindowQuarters

\* C2 witness: two peaks were accepted and a bark-like candidate after the
\* first of them was passed over
C2_Witness ==
    /\ pc = "done"
    /\ Len(verified_peak_pos) >= 2
    /\ \E p \in Positions :
          /\ bark_like[p]
          /\ p > verified_peak_pos[1]
          /\ \A i \in 1..Len(verified_peak_pos) : verified_peak_pos[i] # p

\* C3 as claimed: adjacent events do not overlap as sample ranges.
C3_RangesDisjoint ==
    \A k \in AdjacentEvents :
        barks[k].end_samples <= barks[k + 1].start_samples

\* C3 amended: adjacent events do not overlap as runs of peaks. The last peak
\* of an event (its end_samples less bark_max_interval * sr) lies strictly
\* before the start of the next, the next event starts at least
\* bark_max_interval * sr after the start of this one, and an event of one
\* peak ends no later than the next one starts.
C3_RunsDisjoint ==
    \A k \in AdjacentEvents :
        /\ barks[k].end_samples - IntervalSamples(bark_max_interval, sr)
              < barks[k + 1].start_samples
        /\ barks[k].start_samples + IntervalSamples(bark_max_interval, sr)
              <= barks[k + 1].start_samples
        /\ barks[k].num_barks = 1 =>
              barks[k].end_samples <= barks[k + 1].start_samples

\* C3 witness: an event of several peaks ends after the next event starts
C3_Witness ==
    \E k \in AdjacentEvents :
        /\ barks[k].num_barks >= 2
        /\ barks[k].end_samples > barks[k + 1].start_samples

\* C6: every event has num_barks >= 1 and start_samples <= end_samples, and its
\* end_samples is the position of its last peak plus bark_max_interval * sr,
\* not clipped to the length of the waveform.
C6_EventShape ==
    \A k \in Events :
        /\ barks[k].num_barks >= 1
        /\ barks[k].start_samples <= barks[k].end_samples
        /\ barks[k].end_samples * QuartersPerSecond
              = LastPeak(k) * QuartersPerSecond + bark_max_interval * sr

\* C6 witness: an event of several peaks that ends past the end of the waveform
C6_Witness ==
    \E k \in Events :
        /\ barks[k].num_barks >= 2
        /\ barks[k].end_samples > MaxLen

\* C7: every peak merged into an event lies strictly less than
\* bark_max_interval * sr after the first peak of the event, and the event is
\* maximal: the first peak of the next event lies at least
\* bark_max_interval * sr after the first peak of this one.
C7_GreedyFromFirstPeak ==
    /\ \A k \in Events :
          \A i \in (SumBarks(k - 1) + 2)..SumBarks(k) :
              (peak_pos[i] - FirstPeak(k)) * QuartersPerSecond
                  < bark_max_interval * sr
    /\ \A k \in AdjacentEvents :
          (FirstPeak(k + 1) - FirstPeak(k)) * QuartersPerSecond
              >= bark_max_interval * sr

\* C7 witness: an event of several peaks whose successor starts less than
\* bark_max_interval * sr after its last peak
C7_Witness ==
    \E k \in AdjacentEvents :
        /\ barks[k].num_barks >= 2
        /\ (FirstPeak(k + 1) - LastPeak(k)) * QuartersPerSecond
              < bark_max_interval * sr

\* C8 as claimed: a candidate is passed over exactly when it lies less than
\* sr * window_duration after the last accepted peak.
C8_ReferenceIsLastAccepted ==
    [][ci' = ci + 1 =>
          ((num_tested' = num_tested) <=>
              (cand[ci + 1] * QuartersPerSecond
                  < LastAccepted * QuartersPerSecond + sr * WindowQuarters))]_vars

\* C8 amended: the debounce reference is the last tested candidate, accepted
\* or rejected. A candidate is passed over exactly when it lies less than
\* sr * window_duration after last_peak, a candidate that is tested becomes
\* last_peak whether it is accepted or rejected, and one that is passed over
\* leaves last_peak alone.
C8_ReferenceIsLastTested ==
    [][ci' = ci + 1 =>
          /\ (num_tested' = num_tested) <=>
                (cand[ci + 1] * QuartersPerSecond
                    < last_peak * QuartersPerSecond + sr * WindowQuarters)
          /\ num_tested' # num_tested =>
                /\ last_peak' = cand[ci + 1]
                /\ Len(verified_peak_pos') + Len(not_barks') = num_tested'
          /\ num_tested' = num_tested => last_peak' = last_peak]_vars

\* C8 witness: a rejected candidate is the reference, and the candidate just
\* walked was passed over although no accepted peak is near it
C8_Witness ==
    /\ pc = "test"
    /\ ci >= 2
    /\ verified_peak_pos = << >>
    /\ Len(not_barks) = num_tested
    /\ num_tested >= 1
    /\ last_peak # cand[ci]
    /\ cand[ci] * QuartersPerSecond >= sr * WindowQuarters

\* C9: no candidate in the first sr * window_duration samples is tested, so
\* every accepted position, and with it every event's start_samples, is at
\* least sr * window_duration.
C9_FirstWindowIsDeaf ==
    /\ \A i \in 1..Len(verified_peak_pos) :
          verified_peak_pos[i] * QuartersPerSecond >= sr * WindowQuarters
    /\ \A k \in Events :
          barks[k].start_samples * QuartersPerSecond >= sr * WindowQuarters
    /\ last_peak = 0 \/ last_peak * QuartersPerSecond >= sr * WindowQuarters

\* C9 witness: a bark-like spike in the first window of a finished run that
\* found events elsewhere
C9_Witness ==
    /\ pc = "done"
    /\ barks # << >>
    /\ \E p \in Positions :
          /\ bark_like[p]
          /\ y[p] > BarkThreshold
          /\ p * QuartersPerSecond < sr * WindowQuarters

(***************************************************************************)
(* SpecPipe: pipeline(dir) is run again and again on one directory while   *)
(* recordings arrive in it.  A run is cut into the steps at which it can   *)
(* end: mkv_to_mp3 raises when ffmpeg fails (check=True) and               *)
(* calculate_barks raises when the recording cannot be loaded or its name  *)
(* does not parse; either ends the run where it stands.                    *)
(***************************************************************************)
\* number of video files the directory comes to hold
NumFiles == 2

\* number of pipeline runs
MaxRuns == 3

\* most events calculate_barks finds in one recording
MaxEvents == 2

Files == 1..NumFiles

Header == <<"header", 0, 0>>

\* the lines barks.to_csv writes for the n events of file f
RECURSIVE Rows(_, _)
Rows(f, n) == IF n = 0 THEN << >> ELSE Append(Rows(f, n - 1), <<"row", f, n>>)

\* the orders in which glob may list the files of S
Orderings(S) ==
    {o \in [1..Cardinality(S) -> S] : \A i, j \in 1..Cardinality(S) :
                                          o[i] = o[j] => i = j}

is_new_ignoring_marker(f) == fsize[f] = "full"

\* line 245: not os.path.exists(f + '.md5') and os.path.getsize(f) > 0
is_new(f) == f \notin md5_marker /\ fsize[f] = "full"

\* line 243-246: the files find_new_files returns, as a set
find_new_files == {f \in Files : fsize[f] # "absent" /\ is_new(f)}

\* line 288: open('barks_log.tsv', 'a') creates the log when it is missing
opened_for_append(exists) == TRUE

\* line 290: header = not os.path.exists('barks_log.tsv'), read inside the with
\* block, after the log was opened
header_wanted(exists) == ~opened_for_append(exists)

Bump(counter, f) == [counter EXCEPT ![f] = @ + 1]

InitPipe ==
    /\ fsize \in [Files -> {"absent", "empty", "full"}]
    /\ md5_marker = {}
    /\ mp3_files = {}
    /\ log_exists = FALSE
    /\ bark_log = << >>
    /\ run_pc = "off"
    /\ new_files = << >>
    /\ fi = 0
    /\ mail_lines = << >>
    /\ emails = 0
    /\ runs = 0
    /\ selected = [f \in Files |-> 0]
    /\ started = [f \in Files |-> 0]
    /\ appended = [f \in Files |-> 0]
    /\ TimeIdle
    /\ BarksIdle

\* the camera starts writing a recording, or drops a finished one
FileArrives(f) ==
    /\ fsize[f] = "absent"
    /\ \E size \in {"empty", "full"} : fsize' = [fsize EXCEPT ![f] = size]
    /\ UNCHANGED <<md5_marker, mp3_files, log_exists, bark_log, run_pc,
                   new_files, fi, mail_lines, emails, runs, selected, started,
                   appended, tsVars, bkVars>>

\* an empty recording receives its data
FileGrows(f) ==
    /\ fsize[f] = "empty"
    /\ fsize' = [fsize EXCEPT ![f] = "full"]
    /\ UNCHANGED <<md5_marker, mp3_files, log_exists, bark_log, run_pc,
                   new_files, fi, mail_lines, emails, runs, selected, started,
                   appended, tsVars, bkVars>>

\* lines 264-267: a run finds no new file and returns
FindNothing ==
    /\ run_pc = "off"
    /\ runs < MaxRuns
    /\ find_new_files = {}
    /\ runs' = runs + 1
    /\ new_files' = << >>
    /\ mail_lines' = << >>
    /\ fi' = 0
    /\ UNCHANGED <<fsize, md5_marker, mp3_files, log_exists, bark_log, run_pc,
                   emails, selected, started, appended, tsVars, bkVars>>

\* lines 264-269: a run finds new files and enters its loop
FindNewFiles ==
    /\ run_pc = "off"
    /\ runs < MaxRuns
    /\ find_new_files # {}
    /\ runs' = runs + 1
    /\ new_files' \in Orderings(find_new_files)
    /\ selected' = [f \in Files |->
                       IF f \in find_new_files THEN selected[f] + 1
                       ELSE selected[f]]
    /\ mail_lines' = << >>
    /\ fi' = 1
    /\ run_pc' = "md5"
    /\ UNCHANGED <<fsize, md5_marker, mp3_files, log_exists, bark_log, emails,
                   started, appended, tsVars, bkVars>>

\* lines 270-276: the checksum of the file is computed and its marker written
WriteMd5 ==
    /\ run_pc = "md5"
    /\ md5_marker' = md5_marker \cup {new_files[fi]}
    /\ mail_lines' = Append(mail_lines, new_files[fi])
    /\ started' = Bump(started, new_files[fi])
    /\ run_pc' = "extract"
    /\ UNCHANGED <<fsize, mp3_files, log_exists, bark_log, new_files, fi,
                   emails, runs, selected, appended, tsVars, bkVars>>

\* lines 279-281: ffmpeg writes the mp3
ExtractAudio ==
    /\ run_pc = "extract"
    /\ mp3_files' = mp3_files \cup {new_files[fi]}
    /\ run_pc' = "detect"
    /\ UNCHANGED <<fsize, md5_marker, log_exists, bark_log, new_files, fi,
                   mail_lines, emails, runs, selected, started, appended,
                   tsVars, bkVars>>

\* line 279: ffmpeg fails, subprocess.run raises and the run ends
ExtractFails ==
    /\ run_pc = "extract"
    /\ run_pc' = "off"
    /\ UNCHANGED <<fsize, md5_marker, mp3_files, log_exists, bark_log,
                   new_files, fi, mail_lines, emails, runs, selected, started,
                   appended, tsVars, bkVars>>

\* line 286: calculate_barks raises and the run ends, the mp3 left behind
DetectFails ==
    /\ run_pc = "detect"
    /\ run_pc' = "off"
    /\ UNCHANGED <<fsize, md5_marker, mp3_files, log_exists, bark_log,
                   new_files, fi, mail_lines, emails, runs, selected, started,
                   appended, tsVars, bkVars>>

\* lines 286-292: calculate_barks returns n events, they are appended to the
\* log, the mp3 is removed and the loop goes on to the next file
DetectAndLog(n) ==
    /\ run_pc = "detect"
    /\ log_exists' = opened_for_append(log_exists)
    /\ bark_log' = IF n > 0
                   THEN bark_log
                        \o (IF header_wanted(log_exists) THEN <<Header>>
                            ELSE << >>)
                        \o Rows(new_files[fi], n)
                   ELSE bark_log
    /\ appended' = IF n > 0 THEN Bump(appended, new_files[fi]) ELSE appended
    /\ mp3_files' = mp3_files \ {new_files[fi]}
    /\ IF fi < Len(new_files)
       THEN fi' = fi + 1 /\ run_pc' = "md5"
       ELSE fi' = fi /\ run_pc' = "mail"
    /\ UNCHANGED <<fsize, md5_marker, new_files, mail_lines, emails, runs,
                   selected, started, tsVars, bkVars>>

\* lines 294-298: the checksums are mailed and the run is complete
SendEmail ==
    /\ run_pc = "mail"
    /\ emails' = IF mail_lines # << >> THEN emails + 1 ELSE emails
    /\ run_pc' = "off"
    /\ UNCHANGED <<fsize, md5_marker, mp3_files, log_exists, bark_log,
                   new_files, fi, mail_lines, runs, selected, started,
                   appended, tsVars, bkVars>>

NextPipe ==
    \/ \E f \in Files : FileArrives(f)
    \/ \E f \in Files : FileGrows(f)
    \/ FindNothing
    \/ FindNewFiles
    \/ WriteMd5
    \/ ExtractAudio
    \/ ExtractFails
    \/ DetectFails
    \/ \E n \in 0..MaxEvents : DetectAndLog(n)
    \/ SendEmail

SpecPipe == InitPipe /\ [][NextPipe]_vars

(***************************************************************************)
(* Properties of pipeline, checked under SpecPipe.                         *)
(***************************************************************************)
\* C5 as claimed: once events were appended, the log holds the column header
\* exactly once, as its first line.
C5_HeaderOnceFirst ==
    bark_log # << >> =>
        /\ bark_log[1] = Header
        /\ Cardinality({i \in 1..Len(bark_log) : bark_log[i] = Header}) = 1

\* C10 as claimed: each video file is selected, that is returned by
\* find_new_files, in at most one run, and its events are appended to the log
\* at most once.
C10_SelectedOnce ==
    \A f \in Files : selected[f] <= 1 /\ appended[f] <= 1

\* C10 amended: each video file has its processing begun (its .md5 marker
\* written, its audio extracted, its barks detected) in at most one run, and
\* its events are appended to the log at most once, also when that run was cut
\* short by an exception; the marker exists exactly for the files whose
\* processing was begun. A file that find_new_files returned to a run that
\* ended before reaching it is returned again to a later run.
C10_ProcessedOnce ==
    \A f \in Files :
        /\ started[f] <= 1
        /\ appended[f] <= started[f]
        /\ started[f] = 1 <=> f \in md5_marker
        /\ started[f] <= selected[f]

\* C10 witness: the detection of a file failed in an earlier run (its mp3 was
\* left behind), and a later run is under way that does not have the file
\* among its new files
C10_Witness ==
    \E f \in Files :
        /\ f \in mp3_files
        /\ fsize[f] = "full"
        /\ started[f] = 1
        /\ appended[f] = 0
        /\ run_pc = "md5"
        /\ \A i \in 1..Len(new_files) : new_files[i] # f

(***************************************************************************)
(* Properties of get_sample_time, checked under SpecTime.                  *)
(***************************************************************************)
\* the recordings whose names encode the same date and time, one under each
\* convention: <<numeric stem, camera stem>>
SameMoment ==
    {<<FileDogmic, FileCamera>>, <<FileDogmicNight, FileCameraNight>>,
     <<FileDogmicEve, FileCameraEve>>}

\* C4 as claimed: for a numeric YYYYMMDDHHMMSS stem, 'camera' returns exactly
\* one hour earlier than 'dogmic' returns for the same stem, sample position and
\* sample rate.
C4_SameStemOneHourEarlier ==
    (ts_done /\ ts_type = "camera" /\ ts_filename \in NumericFiles) =>
        /\ ts_result.raised = ""
        /\ duration(ts_result.value,
                    get_sample_time(ts_filename, ts_sample_pos, ts_sr,
                                    "dogmic").value) = SecondsPerHour

\* C4 amended: for a numeric YYYYMMDDHHMMSS stem, 'camera' returns nothing: the
\* stem does not match 1_%Y-%m-%d_%H-%M-%S_%f and strptime raises ValueError.
\* For a stem 1_YYYY-MM-DD_HH-MM-SS_XXXX, 'camera' returns, to the second,
\* exactly one hour earlier than 'dogmic' returns for the numeric stem of the
\* same date and time, at the same sample position and sample rate.
C4_CameraStemOneHourEarlier ==
    (ts_done /\ ts_type = "camera") =>
        /\ ts_filename \in NumericFiles => ts_result.raised = "ValueError"
        /\ \A pair \in SameMoment :
              ts_filename = pair[2] =>
                  /\ ts_result.raised = ""
                  /\ get_sample_time(pair[1], ts_sample_pos, ts_sr,
                                     "dogmic").raised = ""
                  /\ duration(ts_result.value,
                              get_sample_time(pair[1], ts_sample_pos, ts_sr,
                                              "dogmic").value) = SecondsPerHour

\* C4 witness: 1_2024-01-15_08-30-00_1234 at sample 0 resolved under 'camera'
\* to 07:30:00 of the same day
C4_Witness ==
    /\ ts_done
    /\ ts_type = "camera"
    /\ ts_filename = FileCamera
    /\ ts_sample_pos = 0
    /\ ts_result.raised = ""
    /\ ts_result.value.day = 15
    /\ ts_result.value.hour = 7
    /\ ts_result.value.minute = 30

====
